---------------------------- MODULE Spec2Model ----------------------------
(***************************************************************************)
(* Momentum: scheduling, scoring and streak engine.                        *)
(*                                                                         *)
(* Calendar days are modelled as day numbers: a YYYY-MM-DD string is the   *)
(* number of local calendar days since a reference Sunday (day 0).  The    *)
(* local time zone is taken to have no daylight-saving transitions, so two *)
(* consecutive local midnights are exactly 24 hours apart.  A Date object *)
(* or ISO timestamp is an instant: the number of hours since the UTC       *)
(* midnight that starts day 0; the local clock is tz hours ahead of UTC.   *)
(***************************************************************************)
EXTENDS Integers, Sequences, FiniteSets, TLC

VARIABLES
    streaks,   \* the persisted StreakState singleton
    prev,      \* the StreakState that was passed to the most recent call
    call,      \* the most recent call: operation, arguments, day predicates
    result,    \* showGraceDayPrompt / streakType returned by updateStreakState
    today,     \* the wall-clock date; calls are made with dates >= today
    tz,        \* the offset of the local time zone from UTC, in hours
    allTasks,        \* the Task list handed to the scheduling and scoring functions
    allCompletions,  \* the CompletionLog list handed to them
    out,       \* the most recent function evaluation: name, arguments, value
    db,        \* the IndexedDB stores: completions, tasks and the seeded flag
    calls,     \* the completion operations that have started and not finished
    history,   \* how many completion operations were issued, by kind and task
    inits      \* the invocations of initializeAppData and how far each has come

streakVars == <<streaks, prev, call, result, today>>
dataVars == <<tz, allTasks, allCompletions>>
storeVars == <<db, calls, history, inits>>
vars == <<streaks, prev, call, result, today, tz, allTasks, allCompletions, out,
          db, calls, history, inits>>

---------------------------------------------------------------------------
(* Bounds of the model *)

MaxDay == 7          \* dates range over 0..MaxDay (day 7 opens the second week)
MaxStep == 3         \* the clock advances by at most MaxStep days per call
MaxStreak == 2       \* streak counters are explored up to this value
MaxGraceUsed == 2    \* graceDaysUsedThisWeek is explored up to this value
MaxTasks == 2        \* longest task list handed to the scheduling functions
MaxEveryN == 3       \* largest everyNDays of a schedule
MaxLogs == 2         \* longest completion list handed to the scoring functions
MaxWeeks == 2        \* most weeks asked of getLastNWeeksStats
MaxCalls == 3        \* most completion operations issued in one behaviour
MaxInits == 3        \* most invocations of initializeAppData in one behaviour

---------------------------------------------------------------------------
(* Encodings of the non-date values a date field can hold *)

NullDate == -2       \* null  (lastConsistencyDate / lastPerfectDate)
EmptyDate == -3      \* ''    (graceDayWeekStart of DEFAULT_STREAK_STATE)
DaysPerWeek == 7     \* Date.getDay() ranges over 0..6, 0 = Sunday
HoursPerDay == 24    \* 1000 * 60 * 60 * 24 milliseconds

Dates == 0..MaxDay

Abs(x) == IF x < 0 THEN -x ELSE x
Max(a, b) == IF a >= b THEN a ELSE b
Range(s) == {s[i] : i \in 1..Len(s)}

Min(a, b) == IF a <= b THEN a ELSE b

\* Math.round of the non-negative rational num/den (round half up)
Round(num, den) == (2 * num + den) \div (2 * den)

\* Math.round((part / whole) * 100) for 0 <= part <= whole, in the binary64
\* arithmetic of the language.  The quotient is rounded to 53 bits before it
\* is multiplied, which matters only where 100 * part / whole lies exactly
\* on a half, that is where part / whole in lowest terms has denominator 8,
\* 40 or 200.  The product falls short of the half for the ratios 23/40,
\* 29/200, 57/200 and 113/200 ((23 / 40) * 100 is 57.49999999999999), and
\* is exact for every other such ratio.
roundedPercent(part, whole) ==
    IF \/ 40 * part = 23 * whole
       \/ 200 * part \in {29 * whole, 57 * whole, 113 * whole}
    THEN Round(100 * part, whole) - 1
    ELSE Round(100 * part, whole)

---------------------------------------------------------------------------
(* utils/date *)

\* The local calendar day of an instant (getFullYear / getMonth / getDate)
getLocalDateString(date) == (date + tz) \div HoursPerDay

\* new Date(year, month - 1, day): the instant of local midnight of the day
parseLocalDate(dateString) == dateString * HoursPerDay - tz

\* date.toISOString().split('T')[0]: the UTC calendar day of an instant
toISODateString(date) == date \div HoursPerDay

getDayOfWeek(dateString) == dateString % DaysPerWeek

getWeekStart(dateString) == dateString - getDayOfWeek(dateString)

getWeekDates(weekStartDate) ==
    [i \in 1..DaysPerWeek |->
        getLocalDateString(parseLocalDate(weekStartDate) + (i - 1) * HoursPerDay)]

\* The week starts of the last n weeks, oldest first, the last one holding fromDate
getLastNWeekStarts(n, fromDate) ==
    LET currentWeekStart == getWeekStart(getLocalDateString(fromDate))
    IN  [k \in 1..n |->
            getLocalDateString(parseLocalDate(currentWeekStart)
                               - (n - k) * DaysPerWeek * HoursPerDay)]

daysBetween(dateString1, dateString2) ==
    Abs(parseLocalDate(dateString2) - parseLocalDate(dateString1)) \div HoursPerDay

---------------------------------------------------------------------------
(* utils/scheduling *)

\* A plausible slip: the creation day read off the UTC clock
isEveryNDaysScheduled_UtcCreation(task, dateString, everyNDays) ==
    LET days == daysBetween(toISODateString(task.createdAt), dateString)
    IN  IF everyNDays = 0 THEN FALSE ELSE days % Abs(everyNDays) = 0

isEveryNDaysScheduled(task, dateString, everyNDays) ==
    LET createdDate == getLocalDateString(task.createdAt)
        days == daysBetween(createdDate, dateString)
    IN  IF everyNDays = 0
        THEN FALSE                       \* days % 0 is NaN, and NaN === 0 is false
        ELSE days % Abs(everyNDays) = 0  \* days >= 0: the sign of n has no effect

\* A plausible slip: the week counted from Monday (0 = Monday .. 6 = Sunday)
isTaskScheduledForDate_MondayFirst(task, dateString) ==
    IF task.archived THEN FALSE
    ELSE CASE task.schedule.type = "daily" -> TRUE
           [] task.schedule.type = "weekdays" ->
                  getDayOfWeek(dateString + DaysPerWeek - 1) \in task.schedule.weekdays
           [] task.schedule.type = "times_per_week" -> TRUE
           [] task.schedule.type = "every_n_days" ->
                  isEveryNDaysScheduled(task, dateString, task.schedule.everyNDays)
           [] OTHER -> FALSE

isTaskScheduledForDate(task, dateString) ==
    IF task.archived THEN FALSE
    ELSE CASE task.schedule.type = "daily" -> TRUE
           [] task.schedule.type = "weekdays" ->
                  getDayOfWeek(dateString) \in task.schedule.weekdays
           [] task.schedule.type = "times_per_week" -> TRUE
           [] task.schedule.type = "every_n_days" ->
                  isEveryNDaysScheduled(task, dateString, task.schedule.everyNDays)
           [] OTHER -> FALSE

\* A plausible slip: the list handed back without filtering
getScheduledTasksForDate_Unfiltered(tasks, dateString) == tasks

getScheduledTasksForDate(tasks, dateString) ==
    SelectSeq(tasks, LAMBDA t : isTaskScheduledForDate(t, dateString))

\* "no completion": the value of completionMap.get for an absent key
NoCompletion == [taskId |-> 0, date |-> NullDate, countCompleted |-> 0]

isTaskCompleteForDate(task, completion, dateString) ==
    IF completion = NoCompletion THEN FALSE
    ELSE completion.countCompleted >= task.targetPerDay

---------------------------------------------------------------------------
(* utils/grading: day statistics *)

\* completionMap.get(`${taskId}:${dateString}`): buildCompletionMap keeps the
\* last log of the list for a key
completionMapGet(completions, taskId, dateString) ==
    LET hits == {i \in 1..Len(completions) :
                    /\ completions[i].taskId = taskId
                    /\ completions[i].date = dateString}
    IN  IF hits = {} THEN NoCompletion
        ELSE completions[CHOOSE i \in hits : \A j \in hits : j <= i]

RECURSIVE SumSeq(_)
SumSeq(s) == IF s = <<>> THEN 0 ELSE Head(s) + SumSeq(Tail(s))

completedAmount(task, completions, dateString) ==
    Min(completionMapGet(completions, task.id, dateString).countCompleted,
        task.targetPerDay)

\* A plausible slip: a day without scheduled tasks scored as nothing done
calculateMomentumScore_EmptyIsZero(tasks, completions, dateString) ==
    LET scheduledTasks == getScheduledTasksForDate(tasks, dateString)
        totalTarget ==
            SumSeq([i \in 1..Len(scheduledTasks) |-> scheduledTasks[i].targetPerDay])
        totalCompleted ==
            SumSeq([i \in 1..Len(scheduledTasks) |->
                       completedAmount(scheduledTasks[i], completions, dateString)])
    IN  IF totalTarget = 0 THEN 0
        ELSE roundedPercent(totalCompleted, totalTarget)

calculateMomentumScore(tasks, completions, dateString) ==
    LET scheduledTasks == getScheduledTasksForDate(tasks, dateString)
        totalTarget ==
            SumSeq([i \in 1..Len(scheduledTasks) |-> scheduledTasks[i].targetPerDay])
        totalCompleted ==
            SumSeq([i \in 1..Len(scheduledTasks) |->
                       completedAmount(scheduledTasks[i], completions, dateString)])
    IN  IF Len(scheduledTasks) = 0 THEN 100
        ELSE IF totalTarget = 0 THEN 100
        ELSE roundedPercent(totalCompleted, totalTarget)

getDayStats(tasks, completions, dateString) ==
    LET scheduledTasks == getScheduledTasksForDate(tasks, dateString)
        isComplete(t) ==
            isTaskCompleteForDate(t, completionMapGet(completions, t.id, dateString),
                                  dateString)
        totalTarget ==
            SumSeq([i \in 1..Len(scheduledTasks) |-> scheduledTasks[i].targetPerDay])
        totalCompleted ==
            SumSeq([i \in 1..Len(scheduledTasks) |->
                       completedAmount(scheduledTasks[i], completions, dateString)])
        complete == SelectSeq(scheduledTasks, isComplete)
        focusTasks == SelectSeq(scheduledTasks, LAMBDA t : t.focus)
    IN  [date |-> dateString,
         totalTasks |-> Len(scheduledTasks),
         completedTasks |-> Len(complete),
         percentage |-> IF totalTarget > 0
                        THEN roundedPercent(totalCompleted, totalTarget)
                        ELSE 100,
         totalTarget |-> totalTarget,
         totalCompleted |-> totalCompleted,
         focusTasksCompleted |-> Len(SelectSeq(focusTasks, isComplete)),
         focusTasksTotal |-> Len(focusTasks)]

---------------------------------------------------------------------------
(* utils/grading: next best action *)

\* The value returned for "all done": null
NoTask == [id |-> 0]

remainingCount(task, completions, dateString) ==
    task.targetPerDay - completionMapGet(completions, task.id, dateString).countCompleted

\* A plausible slip: the remaining count compared before the focus flag
compareTasks_RemainingFirst(a, b, completions, dateString) ==
    LET aRemaining == remainingCount(a, completions, dateString)
        bRemaining == remainingCount(b, completions, dateString)
    IN  IF aRemaining # bRemaining THEN aRemaining - bRemaining
        ELSE IF a.focus /\ ~b.focus THEN -1
        ELSE IF ~a.focus /\ b.focus THEN 1
        ELSE IF a.kind = "chore" /\ b.kind # "chore" THEN -1
        ELSE IF a.kind # "chore" /\ b.kind = "chore" THEN 1
        ELSE 0

\* The comparator handed to sort: negative when a goes before b
compareTasks(a, b, completions, dateString) ==
    LET aRemaining == remainingCount(a, completions, dateString)
        bRemaining == remainingCount(b, completions, dateString)
    IN  IF a.focus /\ ~b.focus THEN -1
        ELSE IF ~a.focus /\ b.focus THEN 1
        ELSE IF aRemaining # bRemaining THEN aRemaining - bRemaining
        ELSE IF a.kind = "chore" /\ b.kind # "chore" THEN -1
        ELSE IF a.kind # "chore" /\ b.kind = "chore" THEN 1
        ELSE 0

\* One element put into a sorted list behind everything that is not after it
insertSorted(sorted, task, completions, dateString) ==
    LET notAfter == {i \in 1..Len(sorted) :
                        compareTasks(sorted[i], task, completions, dateString) <= 0}
        k == Cardinality(notAfter)
    IN  SubSeq(sorted, 1, k) \o <<task>> \o SubSeq(sorted, k + 1, Len(sorted))

RECURSIVE sortTasks(_, _, _)
\* Array.prototype.sort with the comparator: a stable sort
sortTasks(list, completions, dateString) ==
    IF list = <<>> THEN <<>>
    ELSE insertSorted(sortTasks(SubSeq(list, 1, Len(list) - 1), completions, dateString),
                      list[Len(list)], completions, dateString)

\* A plausible slip: the tasks that are done are not filtered out
getNextBestAction_KeepsDone(tasks, completions, dateString) ==
    LET scheduledTasks == getScheduledTasksForDate(tasks, dateString)
    IN  IF Len(scheduledTasks) = 0 THEN NoTask
        ELSE sortTasks(scheduledTasks, completions, dateString)[1]

getNextBestAction(tasks, completions, dateString) ==
    LET scheduledTasks == getScheduledTasksForDate(tasks, dateString)
        isIncomplete(t) ==
            ~isTaskCompleteForDate(t, completionMapGet(completions, t.id, dateString),
                                   dateString)
        incompleteTasks == SelectSeq(scheduledTasks, isIncomplete)
    IN  IF Len(incompleteTasks) = 0 THEN NoTask
        ELSE sortTasks(incompleteTasks, completions, dateString)[1]

---------------------------------------------------------------------------
(* utils/grading: week statistics *)

\* previousWeekStats left undefined
NoWeek == [weekStartDate |-> NullDate, percentage |-> 0]

isConsistencyDay(day) ==
    IF day.focusTasksTotal > 0 THEN day.focusTasksCompleted > 0
    ELSE day.completedTasks > 0

isPerfectDayOfWeek(day) == day.percentage = 100 /\ day.totalTasks > 0

weekRecord(weekStartDate, dailyStats, percentage, previousWeekStats, perfectDays) ==
    [weekStartDate |-> weekStartDate,
     totalTasks |-> SumSeq([i \in 1..Len(dailyStats) |-> dailyStats[i].totalTasks]),
     completedTasks |-> SumSeq([i \in 1..Len(dailyStats) |-> dailyStats[i].completedTasks]),
     percentage |-> percentage,
     dailyStats |-> dailyStats,
     trendVsLastWeek |-> IF previousWeekStats # NoWeek
                         THEN percentage - previousWeekStats.percentage
                         ELSE 0,
     consistencyDays |-> Len(SelectSeq(dailyStats, isConsistencyDay)),
     perfectDays |-> perfectDays]

\* A plausible slip: the week scored as the mean of its days' scores
getWeekStats_MeanOfDays(tasks, completions, weekStartDate, previousWeekStats) ==
    LET weekDates == getWeekDates(weekStartDate)
        dailyStats == [i \in 1..Len(weekDates) |-> getDayStats(tasks, completions, weekDates[i])]
        percentage ==
            Round(SumSeq([i \in 1..Len(dailyStats) |-> dailyStats[i].percentage]),
                  Len(dailyStats))
    IN  weekRecord(weekStartDate, dailyStats, percentage, previousWeekStats,
                   Len(SelectSeq(dailyStats, isPerfectDayOfWeek)))

\* A plausible slip: every day that scores 100 counted as perfect
getWeekStats_CountsEmptyDays(tasks, completions, weekStartDate, previousWeekStats) ==
    LET weekDates == getWeekDates(weekStartDate)
        dailyStats == [i \in 1..Len(weekDates) |-> getDayStats(tasks, completions, weekDates[i])]
        totalTasks == SumSeq([i \in 1..Len(dailyStats) |-> dailyStats[i].totalTasks])
        completedTasks == SumSeq([i \in 1..Len(dailyStats) |-> dailyStats[i].completedTasks])
        percentage == IF totalTasks > 0 THEN roundedPercent(completedTasks, totalTasks) ELSE 100
    IN  weekRecord(weekStartDate, dailyStats, percentage, previousWeekStats,
                   Len(SelectSeq(dailyStats, LAMBDA day : day.percentage = 100)))

getWeekStats(tasks, completions, weekStartDate, previousWeekStats) ==
    LET weekDates == getWeekDates(weekStartDate)
        dailyStats == [i \in 1..Len(weekDates) |-> getDayStats(tasks, completions, weekDates[i])]
        totalTasks == SumSeq([i \in 1..Len(dailyStats) |-> dailyStats[i].totalTasks])
        completedTasks == SumSeq([i \in 1..Len(dailyStats) |-> dailyStats[i].completedTasks])
        percentage == IF totalTasks > 0 THEN roundedPercent(completedTasks, totalTasks) ELSE 100
    IN  weekRecord(weekStartDate, dailyStats, percentage, previousWeekStats,
                   Len(SelectSeq(dailyStats, isPerfectDayOfWeek)))

RECURSIVE weekStatsUpTo(_, _, _, _)
\* The loop of getLastNWeeksStats after i iterations
weekStatsUpTo(tasks, completions, weekStarts, i) ==
    IF i = 0 THEN <<>>
    ELSE LET weekStats == weekStatsUpTo(tasks, completions, weekStarts, i - 1)
             previousWeek == IF i > 1 THEN weekStats[i - 1] ELSE NoWeek
         IN  Append(weekStats, getWeekStats(tasks, completions, weekStarts[i], previousWeek))

\* A plausible slip: each week computed without its predecessor
getLastNWeeksStats_Unchained(tasks, completions, n, fromDate) ==
    LET weekStarts == getLastNWeekStarts(n, fromDate)
    IN  [i \in 1..n |-> getWeekStats(tasks, completions, weekStarts[i], NoWeek)]

getLastNWeeksStats(tasks, completions, n, fromDate) ==
    LET weekStarts == getLastNWeekStarts(n, fromDate)
    IN  weekStatsUpTo(tasks, completions, weekStarts, Len(weekStarts))

---------------------------------------------------------------------------
(* utils/grading: streak engine *)

\* A plausible slip: the two dates compared the wrong way round
isNextDay_Swapped(date1, date2) == date1 - date2 = 1

isNextDay(date1, date2) == date2 - date1 = 1

DEFAULT_STREAK_STATE ==
    [consistencyStreak |-> 0,
     lastConsistencyDate |-> NullDate,
     perfectStreak |-> 0,
     lastPerfectDate |-> NullDate,
     graceDaysUsedThisWeek |-> 0,
     graceDayWeekStart |-> EmptyDate,
     bestConsistencyStreak |-> 0,
     bestPerfectStreak |-> 0]

\* A plausible slip: the week start is moved on but the count is kept
graceReset_KeepsCount(currentStreaks, todayDate) ==
    [graceDaysUsedThisWeek |-> currentStreaks.graceDaysUsedThisWeek,
     graceDayWeekStart |-> getWeekStart(todayDate)]

\* "Reset grace days if new week"
graceReset(currentStreaks, todayDate) ==
    IF currentStreaks.graceDayWeekStart # getWeekStart(todayDate)
    THEN [graceDaysUsedThisWeek |-> 0, graceDayWeekStart |-> getWeekStart(todayDate)]
    ELSE [graceDaysUsedThisWeek |-> currentStreaks.graceDaysUsedThisWeek,
          graceDayWeekStart |-> currentStreaks.graceDayWeekStart]

isConsistentDay(stats) ==
    IF stats.focusTasksTotal > 0
    THEN stats.focusTasksCompleted > 0
    ELSE stats.completedTasks > 0

isPerfectDay(stats) == stats.percentage = 100 /\ stats.totalTasks > 0

\* A plausible slip: the budget test is off by one (<= 1 for < 1)
consistencyUpdate_BudgetOffByOne(currentStreaks, isConsistent, graceDaysUsedThisWeek, todayDate) ==
    LET last == currentStreaks.lastConsistencyDate
        count == currentStreaks.consistencyStreak
    IN  IF ~isConsistent
        THEN [streak |-> count, last |-> last,
              showGraceDayPrompt |-> FALSE, streakType |-> "null"]
        ELSE IF last = NullDate \/ isNextDay(last, todayDate) \/ last = todayDate
        THEN [streak |-> IF last # todayDate THEN count + 1 ELSE count,
              last |-> todayDate,
              showGraceDayPrompt |-> FALSE, streakType |-> "null"]
        ELSE IF graceDaysUsedThisWeek <= 1 /\ count > 0
        THEN [streak |-> count, last |-> todayDate,
              showGraceDayPrompt |-> TRUE, streakType |-> "consistency"]
        ELSE [streak |-> 1, last |-> todayDate,
              showGraceDayPrompt |-> FALSE, streakType |-> "null"]

\* A plausible slip: a gap without grace day resets the count to 0, not 1
consistencyUpdate_ResetsToZero(currentStreaks, isConsistent, graceDaysUsedThisWeek, todayDate) ==
    LET last == currentStreaks.lastConsistencyDate
        count == currentStreaks.consistencyStreak
    IN  IF ~isConsistent
        THEN [streak |-> count, last |-> last,
              showGraceDayPrompt |-> FALSE, streakType |-> "null"]
        ELSE IF last = NullDate \/ isNextDay(last, todayDate) \/ last = todayDate
        THEN [streak |-> IF last # todayDate THEN count + 1 ELSE count,
              last |-> todayDate,
              showGraceDayPrompt |-> FALSE, streakType |-> "null"]
        ELSE IF graceDaysUsedThisWeek < 1 /\ count > 0
        THEN [streak |-> count, last |-> todayDate,
              showGraceDayPrompt |-> TRUE, streakType |-> "consistency"]
        ELSE [streak |-> 0, last |-> todayDate,
              showGraceDayPrompt |-> FALSE, streakType |-> "null"]

\* A variant that offers the grace day for a gap of exactly one missed day only
consistencyUpdate_OneDayGapOnly(currentStreaks, isConsistent, graceDaysUsedThisWeek, todayDate) ==
    LET last == currentStreaks.lastConsistencyDate
        count == currentStreaks.consistencyStreak
    IN  IF ~isConsistent
        THEN [streak |-> count, last |-> last,
              showGraceDayPrompt |-> FALSE, streakType |-> "null"]
        ELSE IF last = NullDate \/ isNextDay(last, todayDate) \/ last = todayDate
        THEN [streak |-> IF last # todayDate THEN count + 1 ELSE count,
              last |-> todayDate,
              showGraceDayPrompt |-> FALSE, streakType |-> "null"]
        ELSE IF graceDaysUsedThisWeek < 1 /\ count > 0 /\ todayDate - last = 2
        THEN [streak |-> count, last |-> todayDate,
              showGraceDayPrompt |-> TRUE, streakType |-> "consistency"]
        ELSE [streak |-> 1, last |-> todayDate,
              showGraceDayPrompt |-> FALSE, streakType |-> "null"]

\* A plausible slip: a pass is counted again when the day is evaluated again
consistencyUpdate_CountsSameDay(currentStreaks, isConsistent, graceDaysUsedThisWeek, todayDate) ==
    LET last == currentStreaks.lastConsistencyDate
        count == currentStreaks.consistencyStreak
    IN  IF ~isConsistent
        THEN [streak |-> count, last |-> last,
              showGraceDayPrompt |-> FALSE, streakType |-> "null"]
        ELSE IF last = NullDate \/ isNextDay(last, todayDate) \/ last = todayDate
        THEN [streak |-> count + 1, last |-> todayDate,
              showGraceDayPrompt |-> FALSE, streakType |-> "null"]
        ELSE IF graceDaysUsedThisWeek < 1 /\ count > 0
        THEN [streak |-> count, last |-> todayDate,
              showGraceDayPrompt |-> TRUE, streakType |-> "consistency"]
        ELSE [streak |-> 1, last |-> todayDate,
              showGraceDayPrompt |-> FALSE, streakType |-> "null"]

\* "Update consistency streak": the new count and last date, and the prompt
\* variables as this block leaves them
consistencyUpdate(currentStreaks, isConsistent, graceDaysUsedThisWeek, todayDate) ==
    LET last == currentStreaks.lastConsistencyDate
        count == currentStreaks.consistencyStreak
    IN  IF ~isConsistent
        THEN [streak |-> count, last |-> last,
              showGraceDayPrompt |-> FALSE, streakType |-> "null"]
        ELSE IF last = NullDate \/ isNextDay(last, todayDate) \/ last = todayDate
        THEN [streak |-> IF last # todayDate THEN count + 1 ELSE count,
              last |-> todayDate,
              showGraceDayPrompt |-> FALSE, streakType |-> "null"]
        ELSE IF graceDaysUsedThisWeek < 1 /\ count > 0
        THEN [streak |-> count, last |-> todayDate,
              showGraceDayPrompt |-> TRUE, streakType |-> "consistency"]
        ELSE [streak |-> 1, last |-> todayDate,
              showGraceDayPrompt |-> FALSE, streakType |-> "null"]

\* A plausible slip: the test that no prompt is pending is left out
perfectUpdate_IgnoresPendingPrompt(currentStreaks, isPerfect, graceDaysUsedThisWeek, showGraceDayPrompt, streakType, todayDate) ==
    LET last == currentStreaks.lastPerfectDate
        count == currentStreaks.perfectStreak
    IN  IF isPerfect
        THEN IF last = NullDate \/ isNextDay(last, todayDate) \/ last = todayDate
             THEN [streak |-> IF last # todayDate THEN count + 1 ELSE count,
                   last |-> todayDate,
                   showGraceDayPrompt |-> showGraceDayPrompt,
                   streakType |-> streakType]
             ELSE [streak |-> 1, last |-> todayDate,
                   showGraceDayPrompt |-> showGraceDayPrompt,
                   streakType |-> streakType]
        ELSE IF /\ last # todayDate
                /\ last # NullDate
                /\ ~isNextDay(last, todayDate)
                /\ graceDaysUsedThisWeek < 1
                /\ count > 0
        THEN [streak |-> count, last |-> last,
              showGraceDayPrompt |-> TRUE, streakType |-> "perfect"]
        ELSE [streak |-> count, last |-> last,
              showGraceDayPrompt |-> showGraceDayPrompt, streakType |-> streakType]

\* "Update perfect streak": the new count and last date, and the prompt
\* variables as this block leaves them (lastPerfectDate is a date or null, so
\* its truthiness test is the test against null)
perfectUpdate(currentStreaks, isPerfect, graceDaysUsedThisWeek, showGraceDayPrompt, streakType, todayDate) ==
    LET last == currentStreaks.lastPerfectDate
        count == currentStreaks.perfectStreak
    IN  IF isPerfect
        THEN IF last = NullDate \/ isNextDay(last, todayDate) \/ last = todayDate
             THEN [streak |-> IF last # todayDate THEN count + 1 ELSE count,
                   last |-> todayDate,
                   showGraceDayPrompt |-> showGraceDayPrompt,
                   streakType |-> streakType]
             ELSE [streak |-> 1, last |-> todayDate,
                   showGraceDayPrompt |-> showGraceDayPrompt,
                   streakType |-> streakType]
        ELSE IF /\ last # todayDate
                /\ last # NullDate
                /\ ~isNextDay(last, todayDate)
                /\ graceDaysUsedThisWeek < 1
                /\ count > 0
                /\ ~showGraceDayPrompt
        THEN [streak |-> count, last |-> last,
              showGraceDayPrompt |-> TRUE, streakType |-> "perfect"]
        ELSE [streak |-> count, last |-> last,
              showGraceDayPrompt |-> showGraceDayPrompt, streakType |-> streakType]

\* A plausible slip: the best value is overwritten by the current count
bestStreak_Overwritten(best, current) == current

\* "Update best streaks"
bestStreak(best, current) == Max(best, current)

updateStreakState(currentStreaks, tasks, completions, todayDate) ==
    LET stats == getDayStats(tasks, completions, todayDate)
        grace == graceReset(currentStreaks, todayDate)
        c == consistencyUpdate(currentStreaks, isConsistentDay(stats),
                               grace.graceDaysUsedThisWeek, todayDate)
        p == perfectUpdate(currentStreaks, isPerfectDay(stats),
                           grace.graceDaysUsedThisWeek, c.showGraceDayPrompt,
                           c.streakType, todayDate)
    IN  [streaks |->
            [consistencyStreak |-> c.streak,
             lastConsistencyDate |-> c.last,
             perfectStreak |-> p.streak,
             lastPerfectDate |-> p.last,
             graceDaysUsedThisWeek |-> grace.graceDaysUsedThisWeek,
             graceDayWeekStart |-> grace.graceDayWeekStart,
             bestConsistencyStreak |->
                 bestStreak(currentStreaks.bestConsistencyStreak, c.streak),
             bestPerfectStreak |->
                 bestStreak(currentStreaks.bestPerfectStreak, p.streak)],
         showGraceDayPrompt |-> p.showGraceDayPrompt,
         streakType |-> p.streakType]

\* A plausible slip: both last-pass dates are moved, whatever the streak type
applyGraceDay_BothDates(currentStreaks, streakType, todayDate) ==
    [currentStreaks EXCEPT
        !.graceDaysUsedThisWeek = currentStreaks.graceDaysUsedThisWeek + 1,
        !.lastConsistencyDate = todayDate,
        !.lastPerfectDate = todayDate]

applyGraceDay(currentStreaks, streakType, todayDate) ==
    [currentStreaks EXCEPT
        !.graceDaysUsedThisWeek = currentStreaks.graceDaysUsedThisWeek + 1,
        !.lastConsistencyDate =
            IF streakType = "consistency" THEN todayDate
            ELSE currentStreaks.lastConsistencyDate,
        !.lastPerfectDate =
            IF streakType = "perfect" THEN todayDate
            ELSE currentStreaks.lastPerfectDate]

\* Iterations of the look-back loop of calculateConsistencyStreak
LookbackDays == 365

RECURSIVE consistencyStreakFrom(_, _, _, _)
\* What iterations i, i + 1, ... of the loop add to streak.  The day examined
\* is the UTC calendar day of the instant i local days before today.
consistencyStreakFrom(tasks, completions, fromDate, i) ==
    IF i >= LookbackDays THEN 0
    ELSE LET dateString == toISODateString(fromDate - i * HoursPerDay)
             stats == getDayStats(tasks, completions, dateString)
         IN  IF stats.totalTasks = 0
             THEN consistencyStreakFrom(tasks, completions, fromDate, i + 1)
             ELSE IF isConsistentDay(stats)
             THEN 1 + consistencyStreakFrom(tasks, completions, fromDate, i + 1)
             ELSE 0

calculateConsistencyStreak(tasks, completions, fromDate) ==
    consistencyStreakFrom(tasks, completions, fromDate, 0)

---------------------------------------------------------------------------
(* data/repository and data/store: the persisted stores *)

\* A fresh database: no completion, no task, not seeded
EmptyDb == [completions |-> {}, tasks |-> {}, seeded |-> FALSE]

\* "no log": the value of Array.find / findIndex without a match
NoLog == [id |-> 0, taskId |-> 0, date |-> NullDate, countCompleted |-> 0]

\* state.completions.find(c => c.taskId === taskId && c.date === date)
findCompletion(completions, taskId, date) ==
    LET hits == {i \in 1..Len(completions) :
                    completions[i].taskId = taskId /\ completions[i].date = date}
    IN  IF hits = {} THEN NoLog
        ELSE completions[CHOOSE i \in hits : \A j \in hits : i <= j]

\* The log of the pair in the list, or a new log of count 0 with a fresh id
getOrCreateCompletion(completions, taskId, date, newId) ==
    LET existing == findCompletion(completions, taskId, date)
    IN  IF existing # NoLog THEN existing
        ELSE [id |-> newId, taskId |-> taskId, date |-> date, countCompleted |-> 0]

\* db.put on a store with keyPath id: the row of that id is replaced
dbPut(rows, row) == {r \in rows : r.id # row.id} \cup {row}

\* db.delete(id)
dbDelete(rows, id) == {r \in rows : r.id # id}

\* setState of incrementCompletion / setCompletion: the log of the pair is
\* replaced in place, or the new log is appended
mergeByPair(completions, updated) ==
    LET hits == {i \in 1..Len(completions) :
                    /\ completions[i].taskId = updated.taskId
                    /\ completions[i].date = updated.date}
    IN  IF hits = {} THEN Append(completions, updated)
        ELSE [completions EXCEPT ![CHOOSE i \in hits : \A j \in hits : i <= j] = updated]

\* setState of decrementCompletion: the log of that id is replaced
mergeById(completions, updated) ==
    [i \in 1..Len(completions) |->
        IF completions[i].id = updated.id THEN updated ELSE completions[i]]

\* setState after a delete: the log of that id is dropped
removeById(completions, id) == SelectSeq(completions, LAMBDA c : c.id # id)

\* An operation between its synchronous part and its await: what it will
\* write to the database and how it will update state.completions
PendingCall(write, log, merge) ==
    [write |-> write, log |-> log, merge |-> merge, stage |-> "write"]

\* A plausible slip: the target is not tested before the count is raised
startIncrement_NoTargetTest(completions, task, date, newId) ==
    LET completion == getOrCreateCompletion(completions, task.id, date, newId)
    IN  <<PendingCall("put",
                      [completion EXCEPT !.countCompleted = completion.countCompleted + 1],
                      "byPair")>>

\* The synchronous part of incrementCompletion: the calls it leaves pending
startIncrement(completions, task, date, newId) ==
    LET completion == getOrCreateCompletion(completions, task.id, date, newId)
    IN  IF completion.countCompleted >= task.targetPerDay THEN <<>>
        ELSE <<PendingCall("put",
                           [completion EXCEPT !.countCompleted = completion.countCompleted + 1],
                           "byPair")>>

\* The synchronous part of decrementCompletion
startDecrement(completions, task, date) ==
    LET completion == findCompletion(completions, task.id, date)
    IN  IF completion = NoLog \/ completion.countCompleted <= 0 THEN <<>>
        ELSE IF completion.countCompleted - 1 = 0
        THEN <<PendingCall("delete", completion, "remove")>>
        ELSE <<PendingCall("put",
                           [completion EXCEPT !.countCompleted = completion.countCompleted - 1],
                           "byId")>>

\* The synchronous part of setCompletion
startSet(completions, task, count, date, newId) ==
    LET clampedCount == Max(0, Min(count, task.targetPerDay))
        completion == getOrCreateCompletion(completions, task.id, date, newId)
        existing == findCompletion(completions, task.id, date)
    IN  IF clampedCount = 0
        THEN IF existing # NoLog THEN <<PendingCall("delete", existing, "remove")>>
             ELSE <<>>
        ELSE <<PendingCall("put", [completion EXCEPT !.countCompleted = clampedCount],
                           "byPair")>>

\* The names of the first seed tasks of createSeedTasks, in its order
SeedNames == <<"Shower", "Brush teeth">>

\* The task createSeedTasks makes for a name in one invocation: uuidv4 gives
\* every invocation ids of its own
seedTask(invocation, name) == [id |-> <<invocation, name>>, name |-> name]

\* tx.store.put(task) of the seeding loop
seedPut(rows, invocation, name) == dbPut(rows, seedTask(invocation, name))

\* The state of the store before any operation of the application
StoreIdle ==
    /\ db = EmptyDb
    /\ calls = <<>>
    /\ history = [issued |-> 0, increments |-> <<0, 0>>, others |-> <<0, 0>>]
    /\ inits = <<>>

---------------------------------------------------------------------------
(* The tasks and completion logs the streak engine is evaluated against *)

\* A focus habit due Monday to Friday
FocusTask ==
    [id |-> 1, kind |-> "habit", focus |-> TRUE, archived |-> FALSE,
     schedule |-> [type |-> "weekdays", weekdays |-> {1, 2, 3, 4, 5},
                   everyNDays |-> 1],
     targetPerDay |-> 1, createdAt |-> 0]

\* A twice-a-day chore due every day but Saturday
ChoreTask ==
    [id |-> 2, kind |-> "chore", focus |-> FALSE, archived |-> FALSE,
     schedule |-> [type |-> "weekdays", weekdays |-> {0, 1, 2, 3, 4, 5},
                   everyNDays |-> 1],
     targetPerDay |-> 2, createdAt |-> 0]

StreakTasks == <<FocusTask, ChoreTask>>

\* A completion log exists only for a task with at least one completion
completionsFor(dateString, focusCount, choreCount) ==
    (IF focusCount > 0
     THEN <<[taskId |-> FocusTask.id, date |-> dateString,
             countCompleted |-> focusCount]>>
     ELSE <<>>)
    \o
    (IF choreCount > 0
     THEN <<[taskId |-> ChoreTask.id, date |-> dateString,
             countCompleted |-> choreCount]>>
     ELSE <<>>)

NextDates == {d \in Dates : today <= d /\ d <= today + MaxStep}

NoOutput == [op |-> "none"]

NoCall ==
    [op |-> "none", date |-> NullDate, streakType |-> "null",
     isConsistent |-> FALSE, isPerfect |-> FALSE]

---------------------------------------------------------------------------
(* Actions *)

Init ==
    /\ streaks = DEFAULT_STREAK_STATE
    /\ prev = DEFAULT_STREAK_STATE
    /\ call = NoCall
    /\ result = [showGraceDayPrompt |-> FALSE, streakType |-> "null"]
    /\ today = 0
    /\ tz = 0
    /\ allTasks = StreakTasks
    /\ allCompletions = <<>>
    /\ out = NoOutput
    /\ StoreIdle

\* The caller evaluates todayDate and stores the returned StreakState
UpdateStreakState ==
    \E todayDate \in NextDates,
       focusCount \in 0..FocusTask.targetPerDay,
       choreCount \in 0..ChoreTask.targetPerDay :
        LET logs == completionsFor(todayDate, focusCount, choreCount)
        IN  \E stats \in {getDayStats(allTasks, logs, todayDate)},
               r \in {updateStreakState(streaks, allTasks, logs, todayDate)} :
            /\ r.streaks.consistencyStreak <= MaxStreak
            /\ r.streaks.perfectStreak <= MaxStreak
            /\ streaks' = r.streaks
            /\ prev' = streaks
            /\ call' = [op |-> "update", date |-> todayDate, streakType |-> "null",
                        isConsistent |-> isConsistentDay(stats),
                        isPerfect |-> isPerfectDay(stats)]
            /\ result' = [showGraceDayPrompt |-> r.showGraceDayPrompt,
                          streakType |-> r.streakType]
            /\ today' = todayDate
            /\ UNCHANGED <<dataVars, out, storeVars>>

\* The caller applies a grace day and stores the returned StreakState
ApplyGraceDay ==
    \E todayDate \in NextDates, streakType \in {"consistency", "perfect"} :
        /\ streaks.graceDaysUsedThisWeek < MaxGraceUsed
        /\ streaks' = applyGraceDay(streaks, streakType, todayDate)
        /\ prev' = streaks
        /\ call' = [op |-> "apply", date |-> todayDate, streakType |-> streakType,
                    isConsistent |-> FALSE, isPerfect |-> FALSE]
        /\ today' = todayDate
        /\ UNCHANGED <<result, dataVars, out, storeVars>>

Next == UpdateStreakState \/ ApplyGraceDay

Spec == Init /\ [][Next]_vars

---------------------------------------------------------------------------
(* The streak engine with a caller that never answers the grace-day signal *)

UnattendedNext == UpdateStreakState

UnattendedSpec == Init /\ [][UnattendedNext]_vars

---------------------------------------------------------------------------
(* The scheduler, evaluated over bounded task lists                         *)

\* Offsets of the local clock from UTC: west of, at, and east of Greenwich
TimeZones == {-8, 0, 9}

\* Creation instants: 02:00 and 22:00 UTC of day 0
CreatedAts == {2, 22}

\* everyNDays values that are no valid period
InvalidEveryN == {-2, -1, 0}

NewTask(type, weekdays, everyNDays, createdAt, archived) ==
    [id |-> 0, kind |-> "habit", focus |-> FALSE, archived |-> archived,
     schedule |-> [type |-> type, weekdays |-> weekdays, everyNDays |-> everyNDays],
     targetPerDay |-> 1, createdAt |-> createdAt]

ScheduleTaskPool ==
    {NewTask("daily", {}, 1, 2, a) : a \in BOOLEAN}
    \cup {NewTask("times_per_week", {}, 1, 2, FALSE)}
    \cup {NewTask("weekdays", w, 1, 2, FALSE) : w \in {{}, {1, 3, 5}}}
    \cup {NewTask("every_n_days", {}, n, c, FALSE) :
             n \in InvalidEveryN \cup (1..MaxEveryN), c \in CreatedAts}

\* Every list of at most n tasks of the pool, the i-th task having id i
TaskListsOf(pool, n) ==
    UNION {{[i \in 1..k |-> [l[i] EXCEPT !.id = i]] : l \in [1..k -> pool]} : k \in 0..n}

ScheduleInit ==
    /\ streaks = DEFAULT_STREAK_STATE
    /\ prev = DEFAULT_STREAK_STATE
    /\ call = NoCall
    /\ result = [showGraceDayPrompt |-> FALSE, streakType |-> "null"]
    /\ today = 0
    /\ tz \in TimeZones
    /\ allTasks \in TaskListsOf(ScheduleTaskPool, MaxTasks)
    /\ allCompletions = <<>>
    /\ out = NoOutput
    /\ StoreIdle

IsTaskScheduledForDate ==
    \E i \in 1..Len(allTasks), dateString \in Dates :
        /\ out' = [op |-> "isTaskScheduledForDate", task |-> allTasks[i],
                   date |-> dateString,
                   value |-> isTaskScheduledForDate(allTasks[i], dateString)]
        /\ UNCHANGED <<streakVars, dataVars, storeVars>>

GetScheduledTasksForDate ==
    \E dateString \in Dates :
        /\ out' = [op |-> "getScheduledTasksForDate", date |-> dateString,
                   value |-> getScheduledTasksForDate(allTasks, dateString)]
        /\ UNCHANGED <<streakVars, dataVars, storeVars>>

ScheduleNext == IsTaskScheduledForDate \/ GetScheduledTasksForDate

ScheduleSpec == ScheduleInit /\ [][ScheduleNext]_vars

---------------------------------------------------------------------------
(* The momentum score, evaluated over bounded task and completion lists     *)

\* targetPerDay of the tasks: a small target and one whose score can lie on a half
Targets == {2, 40}

\* countCompleted of the logs: nothing, a few, and 23 (of 40)
Counts == {0, 3, 23}

\* The day the logs are written for: Monday of the first week
LogDate == 1

ScoreTask(type, weekdays, targetPerDay, archived) ==
    [id |-> 0, kind |-> "habit", focus |-> FALSE, archived |-> archived,
     schedule |-> [type |-> type, weekdays |-> weekdays, everyNDays |-> 1],
     targetPerDay |-> targetPerDay, createdAt |-> 0]

ScoreTaskPool ==
    {ScoreTask("daily", {}, t, FALSE) : t \in Targets}
    \cup {ScoreTask("daily", {}, 2, TRUE), ScoreTask("weekdays", {1, 3, 5}, 2, FALSE)}

LogPool ==
    {[taskId |-> i, date |-> LogDate, countCompleted |-> c] :
        i \in 1..MaxTasks, c \in Counts}

\* Every list of at most n logs of the pool (a later log of a key replaces an earlier)
LogListsOf(pool, n) == UNION {[1..k -> pool] : k \in 0..n}

ScoreInit ==
    /\ streaks = DEFAULT_STREAK_STATE
    /\ prev = DEFAULT_STREAK_STATE
    /\ call = NoCall
    /\ result = [showGraceDayPrompt |-> FALSE, streakType |-> "null"]
    /\ today = 0
    /\ tz = 0
    /\ allTasks \in TaskListsOf(ScoreTaskPool, MaxTasks)
    /\ allCompletions \in LogListsOf(LogPool, MaxLogs)
    /\ out = NoOutput
    /\ StoreIdle

CalculateMomentumScore ==
    \E dateString \in Dates :
        /\ out' = [op |-> "calculateMomentumScore", date |-> dateString,
                   value |-> calculateMomentumScore(allTasks, allCompletions, dateString)]
        /\ UNCHANGED <<streakVars, dataVars, storeVars>>

ScoreNext == CalculateMomentumScore

ScoreSpec == ScoreInit /\ [][ScoreNext]_vars

---------------------------------------------------------------------------
(* The week statistics, evaluated over two weeks of completions             *)

DailyTask == ScoreTask("daily", {}, 2, FALSE)
WeekdayTask == ScoreTask("weekdays", {1, 3, 5}, 1, FALSE)
ArchivedTask == ScoreTask("daily", {}, 2, TRUE)

WeekTaskLists ==
    {[i \in 1..Len(l) |-> [l[i] EXCEPT !.id = i]] :
        l \in {<<>>, <<ArchivedTask>>, <<DailyTask>>, <<WeekdayTask>>,
               <<DailyTask, WeekdayTask>>}}

\* The days that may carry logs: Monday and Tuesday of week 0, Monday of week 1
WeekLogDates == <<1, 2, 8>>

\* countCompleted of the first and of the second task on one day
DayCounts == (0..2) \X (0..1)

\* The logs of one day: one log for each task with a count above 0
logsOn(dateString, counts) ==
    LET logOf(i) == [taskId |-> i, date |-> dateString, countCompleted |-> counts[i]]
    IN  SelectSeq([i \in 1..Len(counts) |-> logOf(i)], LAMBDA c : c.countCompleted > 0)

WeekLogLists ==
    {logsOn(WeekLogDates[1], a) \o logsOn(WeekLogDates[2], b) \o logsOn(WeekLogDates[3], c) :
        a \in DayCounts, b \in DayCounts, c \in DayCounts}

\* Instants handed in as fromDate: Monday noon and Saturday 23:00 UTC of week 1
FromDates == {204, 335}

WeekStarts == {0, 7}

WeekInit ==
    /\ streaks = DEFAULT_STREAK_STATE
    /\ prev = DEFAULT_STREAK_STATE
    /\ call = NoCall
    /\ result = [showGraceDayPrompt |-> FALSE, streakType |-> "null"]
    /\ today = 0
    /\ tz \in TimeZones
    /\ allTasks \in WeekTaskLists
    /\ allCompletions \in WeekLogLists
    /\ out = NoOutput
    /\ StoreIdle

GetWeekStats ==
    \E weekStartDate \in WeekStarts :
        /\ out' = [op |-> "getWeekStats", weekStartDate |-> weekStartDate,
                   value |-> getWeekStats(allTasks, allCompletions, weekStartDate, NoWeek)]
        /\ UNCHANGED <<streakVars, dataVars, storeVars>>

GetLastNWeeksStats ==
    \E n \in 1..MaxWeeks, fromDate \in FromDates :
        /\ out' = [op |-> "getLastNWeeksStats", n |-> n, fromDate |-> fromDate,
                   value |-> getLastNWeeksStats(allTasks, allCompletions, n, fromDate)]
        /\ UNCHANGED <<streakVars, dataVars, storeVars>>

WeekNext == GetWeekStats \/ GetLastNWeeksStats

WeekSpec == WeekInit /\ [][WeekNext]_vars

---------------------------------------------------------------------------
(* The streak count, evaluated from an instant of the day after three
   days of completions                                                      *)

RunTaskLists ==
    {[i \in 1..Len(l) |-> [l[i] EXCEPT !.id = i]] :
        l \in {<<DailyTask>>, <<WeekdayTask>>, <<FocusTask, DailyTask>>,
               <<ArchivedTask, DailyTask>>}}

\* The days that may carry logs: Monday, Tuesday and Wednesday of week 1
RunLogDates == <<8, 9, 10>>

RunLogLists ==
    {logsOn(RunLogDates[1], a) \o logsOn(RunLogDates[2], b) \o logsOn(RunLogDates[3], c) :
        a \in DayCounts, b \in DayCounts, c \in DayCounts}

\* The local day fromDate lies on: the last day that may carry logs
FromDay == 10

\* Local hours of fromDate: midnight, noon and late evening
LocalHours == {0, 12, 23}

RunInit ==
    /\ streaks = DEFAULT_STREAK_STATE
    /\ prev = DEFAULT_STREAK_STATE
    /\ call = NoCall
    /\ result = [showGraceDayPrompt |-> FALSE, streakType |-> "null"]
    /\ today = 0
    /\ tz \in TimeZones
    /\ allTasks \in RunTaskLists
    /\ allCompletions \in RunLogLists
    /\ out = NoOutput
    /\ StoreIdle

CalculateConsistencyStreak ==
    \E hour \in LocalHours :
        LET fromDate == parseLocalDate(FromDay) + hour
        IN  /\ out' = [op |-> "calculateConsistencyStreak", fromDate |-> fromDate,
                       value |-> calculateConsistencyStreak(allTasks, allCompletions, fromDate)]
            /\ UNCHANGED <<streakVars, dataVars, storeVars>>

RunNext == CalculateConsistencyStreak

RunSpec == RunInit /\ [][RunNext]_vars

---------------------------------------------------------------------------
(* The next best action, evaluated over bounded task lists                  *)

ActionTask(kind, focus, targetPerDay) ==
    [id |-> 0, kind |-> kind, focus |-> focus, archived |-> FALSE,
     schedule |-> [type |-> "daily", weekdays |-> {}, everyNDays |-> 1],
     targetPerDay |-> targetPerDay, createdAt |-> 0]

ActionTaskPool ==
    {ActionTask(k, f, t) : k \in {"habit", "chore"}, f \in BOOLEAN, t \in {1, 3}}
    \cup {ArchivedTask, WeekdayTask}

\* countCompleted of the log of a task
ActionCounts == 0..3

\* The days asked about: the day of the logs (a Monday) and the day after
ActionDates == {LogDate, LogDate + 1}

ActionInit ==
    /\ streaks = DEFAULT_STREAK_STATE
    /\ prev = DEFAULT_STREAK_STATE
    /\ call = NoCall
    /\ result = [showGraceDayPrompt |-> FALSE, streakType |-> "null"]
    /\ today = 0
    /\ tz = 0
    /\ allTasks \in TaskListsOf(ActionTaskPool, MaxTasks)
    /\ allCompletions \in {logsOn(LogDate, c) : c \in [1..Len(allTasks) -> ActionCounts]}
    /\ out = NoOutput
    /\ StoreIdle

GetNextBestAction ==
    \E dateString \in ActionDates :
        /\ out' = [op |-> "getNextBestAction", date |-> dateString,
                   value |-> getNextBestAction(allTasks, allCompletions, dateString)]
        /\ UNCHANGED <<streakVars, dataVars, storeVars>>

ActionNext == GetNextBestAction

ActionSpec == ActionInit /\ [][ActionNext]_vars

---------------------------------------------------------------------------
(* The completion operations of the store: each runs its synchronous part
   against the completions it sees, awaits its database write and then
   updates state.completions.  Writes and their continuations finish in the
   order the operations were started; a re-render follows each setState at
   once, so an operation sees the completions as of its start.             *)

\* A twice-a-day task (id 1) and a once-a-day task (id 2)
StoreTasks ==
    <<[DailyTask EXCEPT !.id = 1], [ScoreTask("daily", {}, 1, FALSE) EXCEPT !.id = 2]>>

\* The count argument of setCompletion
SetCounts == {-1, 1, 3}

StoreInit ==
    /\ streaks = DEFAULT_STREAK_STATE
    /\ prev = DEFAULT_STREAK_STATE
    /\ call = NoCall
    /\ result = [showGraceDayPrompt |-> FALSE, streakType |-> "null"]
    /\ today = 0
    /\ tz = 0
    /\ allTasks = StoreTasks
    /\ allCompletions = <<>>
    /\ out = NoOutput
    /\ StoreIdle

IncrementCompletion ==
    \E i \in 1..Len(allTasks) :
        /\ history.issued < MaxCalls
        /\ calls' = calls \o startIncrement(allCompletions, allTasks[i], LogDate,
                                            history.issued + 1)
        /\ history' = [history EXCEPT !.issued = @ + 1, !.increments[i] = @ + 1]
        /\ UNCHANGED <<streakVars, dataVars, out, db, inits>>

DecrementCompletion ==
    \E i \in 1..Len(allTasks) :
        /\ history.issued < MaxCalls
        /\ calls' = calls \o startDecrement(allCompletions, allTasks[i], LogDate)
        /\ history' = [history EXCEPT !.issued = @ + 1, !.others[i] = @ + 1]
        /\ UNCHANGED <<streakVars, dataVars, out, db, inits>>

SetCompletion ==
    \E i \in 1..Len(allTasks), count \in SetCounts :
        /\ history.issued < MaxCalls
        /\ calls' = calls \o startSet(allCompletions, allTasks[i], count, LogDate,
                                      history.issued + 1)
        /\ history' = [history EXCEPT !.issued = @ + 1, !.others[i] = @ + 1]
        /\ UNCHANGED <<streakVars, dataVars, out, db, inits>>

\* repo.upsertCompletion / repo.deleteCompletion of the oldest pending call
DbWrite ==
    /\ calls # <<>>
    /\ Head(calls).stage = "write"
    /\ db' = [db EXCEPT !.completions =
                 IF Head(calls).write = "put" THEN dbPut(@, Head(calls).log)
                 ELSE dbDelete(@, Head(calls).log.id)]
    /\ calls' = [calls EXCEPT ![1].stage = "setState"]
    /\ UNCHANGED <<streakVars, tz, allTasks, allCompletions, out, history, inits>>

\* The setState that follows the await
SetState ==
    /\ calls # <<>>
    /\ Head(calls).stage = "setState"
    /\ allCompletions' =
           CASE Head(calls).merge = "byPair" -> mergeByPair(allCompletions, Head(calls).log)
             [] Head(calls).merge = "byId" -> mergeById(allCompletions, Head(calls).log)
             [] OTHER -> removeById(allCompletions, Head(calls).log.id)
    /\ calls' = Tail(calls)
    /\ UNCHANGED <<streakVars, tz, allTasks, out, db, history, inits>>

StoreNext ==
    \/ IncrementCompletion
    \/ DecrementCompletion
    \/ SetCompletion
    \/ DbWrite
    \/ SetState

StoreSpec == StoreInit /\ [][StoreNext]_vars

---------------------------------------------------------------------------
(* The day statistics, evaluated over task lists with a large target        *)

\* A task to be done 200 times a day
BigTask == ScoreTask("daily", {}, 200, FALSE)

DayTaskPool == {BigTask, DailyTask, WeekdayTask}

\* countCompleted of the log of a task: nothing, 2, one short of 200, and 200
BigCounts == {0, 2, 199, 200}

DayInit ==
    /\ streaks = DEFAULT_STREAK_STATE
    /\ prev = DEFAULT_STREAK_STATE
    /\ call = NoCall
    /\ result = [showGraceDayPrompt |-> FALSE, streakType |-> "null"]
    /\ today = 0
    /\ tz = 0
    /\ allTasks \in TaskListsOf(DayTaskPool, MaxTasks)
    /\ allCompletions \in {logsOn(LogDate, c) : c \in [1..Len(allTasks) -> BigCounts]}
    /\ out = NoOutput
    /\ StoreIdle

GetDayStats ==
    \E dateString \in ActionDates :
        /\ out' = [op |-> "getDayStats", date |-> dateString,
                   value |-> getDayStats(allTasks, allCompletions, dateString)]
        /\ UNCHANGED <<streakVars, dataVars, storeVars>>

DayNext == GetDayStats

DaySpec == DayInit /\ [][DayNext]_vars

---------------------------------------------------------------------------
(* initializeAppData: every invocation reads the seeded flag, and if it is
   not set puts the seed tasks in one readwrite transaction on the tasks
   store, sets the flag, and then makes sure settings and streaks exist.
   Invocations may overlap at every await.                                  *)

SeedInit ==
    /\ streaks = DEFAULT_STREAK_STATE
    /\ prev = DEFAULT_STREAK_STATE
    /\ call = NoCall
    /\ result = [showGraceDayPrompt |-> FALSE, streakType |-> "null"]
    /\ today = 0
    /\ tz = 0
    /\ allTasks = <<>>
    /\ allCompletions = <<>>
    /\ out = NoOutput
    /\ StoreIdle

\* Another transaction on the tasks store is open: some other invocation has
\* put a seed task and has not put its last one
TasksStoreBusy(k) ==
    \E j \in 1..Len(inits) :
        j # k /\ inits[j].stage = "putTasks" /\ inits[j].next > 1

\* loadData / refreshData calls initializeAppData
InitializeAppData ==
    /\ Len(inits) < MaxInits
    /\ inits' = Append(inits, [stage |-> "readFlag", next |-> 1])
    /\ UNCHANGED <<streakVars, dataVars, out, db, calls, history>>

\* const seededFlag = await db.get('meta', 'seeded')
ReadSeededFlag ==
    \E k \in 1..Len(inits) :
        /\ inits[k].stage = "readFlag"
        /\ inits' = [inits EXCEPT ![k].stage = IF db.seeded THEN "ensure" ELSE "putTasks"]
        /\ UNCHANGED <<streakVars, dataVars, out, db, calls, history>>

\* One iteration of the seeding loop; after the last one the transaction is done
PutSeedTask ==
    \E k \in 1..Len(inits) :
        /\ inits[k].stage = "putTasks"
        /\ ~TasksStoreBusy(k)
        /\ db' = [db EXCEPT !.tasks = seedPut(@, k, SeedNames[inits[k].next])]
        /\ inits' = [inits EXCEPT
                        ![k].next = @ + 1,
                        ![k].stage = IF inits[k].next = Len(SeedNames)
                                     THEN "putFlag" ELSE "putTasks"]
        /\ UNCHANGED <<streakVars, dataVars, out, calls, history>>

\* await db.put('meta', {key: 'seeded', value: 'true'})
PutSeededFlag ==
    \E k \in 1..Len(inits) :
        /\ inits[k].stage = "putFlag"
        /\ db' = [db EXCEPT !.seeded = TRUE]
        /\ inits' = [inits EXCEPT ![k].stage = "ensure"]
        /\ UNCHANGED <<streakVars, dataVars, out, calls, history>>

\* Settings and streaks are read and saved back; the tasks store is not touched
EnsureSettingsAndStreaks ==
    \E k \in 1..Len(inits) :
        /\ inits[k].stage = "ensure"
        /\ inits' = [inits EXCEPT ![k].stage = "done"]
        /\ UNCHANGED <<streakVars, dataVars, out, db, calls, history>>

SeedNext ==
    \/ InitializeAppData
    \/ ReadSeededFlag
    \/ PutSeedTask
    \/ PutSeededFlag
    \/ EnsureSettingsAndStreaks

SeedSpec == SeedInit /\ [][SeedNext]_vars

---------------------------------------------------------------------------
(* Vocabulary of the properties: the most recent call, seen from the state  *)
(* it was made in (prev) and the state it returned (streaks)               *)

Updated == call.op = "update"
Applied == call.op = "apply"

\* The evaluated date lies 2 or more days after the streak's last pass date
GapSince(last) == last # NullDate /\ call.date - last >= 2

\* The evaluated date is the first pass, or the day right after the last pass
FirstOrNextDay(last) == last = NullDate \/ last = call.date - 1

\* The grace-day budget that the call works with, after the new-week reset
BudgetLeft ==
    \/ prev.graceDayWeekStart # call.date - (call.date % 7)
    \/ prev.graceDaysUsedThisWeek < 1

---------------------------------------------------------------------------
(* C1: after any sequence of updateStreakState and applyGraceDay calls from *)
(* the default state, graceDaysUsedThisWeek never exceeds 1.               *)
(* applyGraceDay increments the counter without looking at it, so two      *)
(* applyGraceDay calls in a row refute this.                               *)
C1_AtMostOneGraceDayPerWeek == streaks.graceDaysUsedThisWeek <= 1

---------------------------------------------------------------------------
(* C2: when updateStreakState evaluates a passing date 2 or more days after *)
(* the streak's last pass date, with graceDaysUsedThisWeek < 1 and a count *)
(* > 0, it signals a grace-day opportunity for that streak type and leaves *)
(* the streak's count and last pass date unchanged; for both streak types. *)
(* The code overwrites lastConsistencyDate while prompting, and resets the *)
(* perfect streak to 1 without any prompt.                                 *)
C2_ConsistencyGapLeavesStreakPending ==
    (/\ Updated
     /\ call.isConsistent
     /\ GapSince(prev.lastConsistencyDate)
     /\ prev.graceDaysUsedThisWeek < 1
     /\ prev.consistencyStreak > 0)
    => /\ result.showGraceDayPrompt
       /\ result.streakType = "consistency"
       /\ streaks.consistencyStreak = prev.consistencyStreak
       /\ streaks.lastConsistencyDate = prev.lastConsistencyDate

C2_PerfectGapLeavesStreakPending ==
    (/\ Updated
     /\ call.isPerfect
     /\ GapSince(prev.lastPerfectDate)
     /\ prev.graceDaysUsedThisWeek < 1
     /\ prev.perfectStreak > 0)
    => /\ result.showGraceDayPrompt
       /\ streaks.perfectStreak = prev.perfectStreak
       /\ streaks.lastPerfectDate = prev.lastPerfectDate

C2_GapSignalsAndLeavesStreakPending ==
    C2_ConsistencyGapLeavesStreakPending /\ C2_PerfectGapLeavesStreakPending

---------------------------------------------------------------------------
(* C3: once a grace day has been used in the week of the evaluated date, an *)
(* evaluation in that week raises no grace-day signal and a passing gap    *)
(* resets the streak to 1; an evaluation in a different week starts with   *)
(* graceDaysUsedThisWeek = 0, so one grace day is available and a passing  *)
(* consistency gap with a running streak is signalled again.               *)
C3_GraceBudgetPerWeek ==
    Updated =>
       /\ (prev.graceDaysUsedThisWeek >= 1
           /\ prev.graceDayWeekStart = getWeekStart(call.date))
          => /\ ~result.showGraceDayPrompt
             /\ result.streakType = "null"
             /\ (call.isConsistent /\ GapSince(prev.lastConsistencyDate))
                => streaks.consistencyStreak = 1
             /\ (call.isPerfect /\ GapSince(prev.lastPerfectDate))
                => streaks.perfectStreak = 1
       /\ prev.graceDayWeekStart # getWeekStart(call.date)
          => /\ streaks.graceDaysUsedThisWeek = 0
             /\ (/\ call.isConsistent
                 /\ GapSince(prev.lastConsistencyDate)
                 /\ prev.consistencyStreak > 0)
                => /\ result.showGraceDayPrompt
                   /\ streaks.consistencyStreak = prev.consistencyStreak

\* A second gap in a week whose grace day is spent
C3_WitnessExhausted ==
    /\ Updated
    /\ prev.graceDaysUsedThisWeek = 1
    /\ prev.graceDayWeekStart = getWeekStart(call.date)
    /\ call.isConsistent
    /\ GapSince(prev.lastConsistencyDate)
    /\ prev.consistencyStreak = 2
    /\ streaks.consistencyStreak = 1

\* A gap evaluated in the week after the one whose grace day was spent
C3_WitnessNewWeek ==
    /\ Updated
    /\ prev.graceDaysUsedThisWeek = 1
    /\ prev.graceDayWeekStart # getWeekStart(call.date)
    /\ prev.graceDayWeekStart # EmptyDate
    /\ call.isConsistent
    /\ GapSince(prev.lastConsistencyDate)
    /\ prev.consistencyStreak > 0
    /\ result.showGraceDayPrompt

---------------------------------------------------------------------------
(* C4: applyGraceDay(state, streakType, date) adds exactly 1 to            *)
(* graceDaysUsedThisWeek, sets the last-pass date of the named streak type *)
(* to date, and leaves both counts, both bests, graceDayWeekStart and the  *)
(* other streak's last-pass date as they were.                             *)
C4_ApplyGraceDayFrame ==
    Applied =>
       /\ streaks.graceDaysUsedThisWeek = prev.graceDaysUsedThisWeek + 1
       /\ streaks.consistencyStreak = prev.consistencyStreak
       /\ streaks.perfectStreak = prev.perfectStreak
       /\ streaks.bestConsistencyStreak = prev.bestConsistencyStreak
       /\ streaks.bestPerfectStreak = prev.bestPerfectStreak
       /\ streaks.graceDayWeekStart = prev.graceDayWeekStart
       /\ call.streakType = "consistency"
          => /\ streaks.lastConsistencyDate = call.date
             /\ streaks.lastPerfectDate = prev.lastPerfectDate
       /\ call.streakType = "perfect"
          => /\ streaks.lastPerfectDate = call.date
             /\ streaks.lastConsistencyDate = prev.lastConsistencyDate

\* A grace day applied to a running perfect streak whose last pass is older
\* than the date, while the consistency streak has another last-pass date
C4_Witness ==
    /\ Applied
    /\ call.streakType = "perfect"
    /\ prev.perfectStreak > 0
    /\ prev.consistencyStreak > 0
    /\ prev.lastPerfectDate # call.date
    /\ prev.lastConsistencyDate # call.date
    /\ prev.lastConsistencyDate # NullDate

---------------------------------------------------------------------------
(* C5: when updateStreakState evaluates a passing date D and the streak's   *)
(* last pass date is null or the day before D, that streak's count grows   *)
(* by exactly 1 and its last pass date becomes D.                          *)
C5_FirstOrNextDayIncrements ==
    Updated =>
       /\ (call.isConsistent /\ FirstOrNextDay(prev.lastConsistencyDate))
          => /\ streaks.consistencyStreak = prev.consistencyStreak + 1
             /\ streaks.lastConsistencyDate = call.date
       /\ (call.isPerfect /\ FirstOrNextDay(prev.lastPerfectDate))
          => /\ streaks.perfectStreak = prev.perfectStreak + 1
             /\ streaks.lastPerfectDate = call.date

\* Both streaks continue from the day before
C5_Witness ==
    /\ Updated
    /\ call.isConsistent
    /\ call.isPerfect
    /\ prev.lastConsistencyDate = call.date - 1
    /\ prev.lastPerfectDate = call.date - 1
    /\ prev.consistencyStreak = 1
    /\ prev.perfectStreak = 1

---------------------------------------------------------------------------
(* C6, as claimed: when updateStreakState evaluates a passing date 2 or     *)
(* more days after the last pass date and the state passed in has          *)
(* graceDaysUsedThisWeek >= 1 or a streak count of 0, the count becomes 1  *)
(* and the last pass date becomes D.  Refuted when the date opens a new    *)
(* week: the budget is reset first and the gap is prompted instead.        *)
C6_NoGraceResets_AsClaimed ==
    Updated =>
       /\ (/\ call.isConsistent
           /\ GapSince(prev.lastConsistencyDate)
           /\ (prev.graceDaysUsedThisWeek >= 1 \/ prev.consistencyStreak = 0))
          => /\ streaks.consistencyStreak = 1
             /\ streaks.lastConsistencyDate = call.date
       /\ (/\ call.isPerfect
           /\ GapSince(prev.lastPerfectDate)
           /\ (prev.graceDaysUsedThisWeek >= 1 \/ prev.perfectStreak = 0))
          => /\ streaks.perfectStreak = 1
             /\ streaks.lastPerfectDate = call.date

(* C6, amended: the same, where "no grace day is available" means that the  *)
(* budget of the evaluated date's week is spent (graceDaysUsedThisWeek >= 1 *)
(* with graceDayWeekStart = weekStart(D)) or the streak count is 0.        *)
C6_NoGraceResets ==
    Updated =>
       /\ (/\ call.isConsistent
           /\ GapSince(prev.lastConsistencyDate)
           /\ (~BudgetLeft \/ prev.consistencyStreak = 0))
          => /\ streaks.consistencyStreak = 1
             /\ streaks.lastConsistencyDate = call.date
       /\ (/\ call.isPerfect
           /\ GapSince(prev.lastPerfectDate)
           /\ (~BudgetLeft \/ prev.perfectStreak = 0))
          => /\ streaks.perfectStreak = 1
             /\ streaks.lastPerfectDate = call.date

\* A running consistency streak of 2 is reset by a gap without budget
C6_Witness ==
    /\ Updated
    /\ call.isConsistent
    /\ GapSince(prev.lastConsistencyDate)
    /\ ~BudgetLeft
    /\ prev.consistencyStreak = 2
    /\ streaks.consistencyStreak = 1
    /\ streaks.lastConsistencyDate = call.date

---------------------------------------------------------------------------
(* C7: bestConsistencyStreak and bestPerfectStreak never decrease over any  *)
(* call, and after every updateStreakState call each best value is at      *)
(* least the corresponding current streak count.                           *)
C7_BestNeverDecreases ==
    /\ streaks.bestConsistencyStreak >= prev.bestConsistencyStreak
    /\ streaks.bestPerfectStreak >= prev.bestPerfectStreak
    /\ Updated
       => /\ streaks.bestConsistencyStreak >= streaks.consistencyStreak
          /\ streaks.bestPerfectStreak >= streaks.perfectStreak

\* A reset to 1 of both streaks while the bests stay at 2
C7_Witness ==
    /\ Updated
    /\ prev.consistencyStreak = 2
    /\ prev.perfectStreak = 2
    /\ streaks.consistencyStreak = 1
    /\ streaks.perfectStreak = 1
    /\ streaks.bestConsistencyStreak = 2
    /\ streaks.bestPerfectStreak = 2

---------------------------------------------------------------------------
(* C8: updateStreakState on date D sets graceDaysUsedThisWeek to 0 and      *)
(* graceDayWeekStart to the Sunday on or before D whenever the stored      *)
(* graceDayWeekStart differs from it, leaves both fields unchanged when    *)
(* they are equal, and never increases graceDaysUsedThisWeek.              *)
SundayOnOrBefore(d) ==
    CHOOSE w \in (d - 6)..d : w % 7 = 0

C8_WeekReset ==
    Updated =>
       /\ prev.graceDayWeekStart # SundayOnOrBefore(call.date)
          => /\ streaks.graceDaysUsedThisWeek = 0
             /\ streaks.graceDayWeekStart = SundayOnOrBefore(call.date)
       /\ prev.graceDayWeekStart = SundayOnOrBefore(call.date)
          => /\ streaks.graceDaysUsedThisWeek = prev.graceDaysUsedThisWeek
             /\ streaks.graceDayWeekStart = prev.graceDayWeekStart
       /\ streaks.graceDaysUsedThisWeek <= prev.graceDaysUsedThisWeek

\* A spent budget is reset by the first evaluation of the next week
C8_WitnessReset ==
    /\ Updated
    /\ prev.graceDaysUsedThisWeek >= 1
    /\ prev.graceDayWeekStart = 0
    /\ call.date = 7
    /\ streaks.graceDayWeekStart = 7

\* A spent budget is kept by an evaluation later in the same week
C8_WitnessKept ==
    /\ Updated
    /\ prev.graceDaysUsedThisWeek >= 1
    /\ prev.graceDayWeekStart = 0
    /\ call.date \in 1..6

---------------------------------------------------------------------------
(* C9, as claimed: when updateStreakState evaluates a date D that is not a  *)
(* perfect day, lastPerfectDate is set, differs from D and is not the day  *)
(* before D, graceDaysUsedThisWeek < 1 and perfectStreak > 0, the result   *)
(* signals a grace-day opportunity with streakType 'perfect' and leaves    *)
(* perfectStreak and lastPerfectDate unchanged.  Refuted when the same     *)
(* call already prompts for the consistency streak.                        *)
PerfectFailGap ==
    /\ Updated
    /\ ~call.isPerfect
    /\ prev.lastPerfectDate # NullDate
    /\ prev.lastPerfectDate # call.date
    /\ prev.lastPerfectDate # call.date - 1
    /\ prev.graceDaysUsedThisWeek < 1
    /\ prev.perfectStreak > 0

C9_PerfectFailSignals_AsClaimed ==
    PerfectFailGap
    => /\ result.showGraceDayPrompt
       /\ result.streakType = "perfect"
       /\ streaks.perfectStreak = prev.perfectStreak
       /\ streaks.lastPerfectDate = prev.lastPerfectDate

\* The same call prompts for the consistency streak
ConsistencyPrompted ==
    /\ call.isConsistent
    /\ GapSince(prev.lastConsistencyDate)
    /\ prev.consistencyStreak > 0

(* C9, amended: under the same conditions the result signals a grace-day    *)
(* opportunity and leaves perfectStreak and lastPerfectDate unchanged; its *)
(* streakType is 'perfect' unless the same call prompts for a consistency  *)
(* gap, in which case the single signal carries 'consistency'.             *)
C9_PerfectFailSignals ==
    PerfectFailGap
    => /\ result.showGraceDayPrompt
       /\ result.streakType = IF ConsistencyPrompted THEN "consistency" ELSE "perfect"
       /\ streaks.perfectStreak = prev.perfectStreak
       /\ streaks.lastPerfectDate = prev.lastPerfectDate

C9_Witness ==
    /\ PerfectFailGap
    /\ ~ConsistencyPrompted
    /\ result.streakType = "perfect"

---------------------------------------------------------------------------
(* C10, as claimed: the grace-day signal is offered only when exactly one   *)
(* calendar day was missed between the last pass date and the evaluated    *)
(* date; for a longer gap no grace day is offered and the streak is reset. *)
C10_OnlyOneDayGap_AsClaimed ==
    Updated =>
       /\ result.streakType = "consistency"
          => call.date - prev.lastConsistencyDate = 2
       /\ result.streakType = "perfect"
          => call.date - prev.lastPerfectDate = 2
       /\ (/\ call.isConsistent
           /\ prev.lastConsistencyDate # NullDate
           /\ call.date - prev.lastConsistencyDate > 2)
          => /\ ~result.showGraceDayPrompt
             /\ streaks.consistencyStreak = 1

(* C10, amended: the grace-day signal is offered only when at least one     *)
(* calendar day was missed between the last pass date and the evaluated    *)
(* date (never on the first pass, the same day or the next day), and a     *)
(* passing consistency gap of any length is offered it when the week's     *)
(* budget is unspent and the streak is running, the count being preserved. *)
C10_AnyGapIsOffered ==
    Updated =>
       /\ result.streakType = "consistency"
          => /\ prev.lastConsistencyDate # NullDate
             /\ call.date - prev.lastConsistencyDate >= 2
       /\ result.streakType = "perfect"
          => /\ prev.lastPerfectDate # NullDate
             /\ call.date - prev.lastPerfectDate >= 2
       /\ (/\ call.isConsistent
           /\ prev.lastConsistencyDate # NullDate
           /\ call.date - prev.lastConsistencyDate >= 2
           /\ BudgetLeft
           /\ prev.consistencyStreak > 0)
          => /\ result.streakType = "consistency"
             /\ streaks.consistencyStreak = prev.consistencyStreak

\* Two missed days are bridged by the offer just like one
C10_Witness ==
    /\ Updated
    /\ call.isConsistent
    /\ prev.lastConsistencyDate # NullDate
    /\ call.date - prev.lastConsistencyDate = 3
    /\ prev.consistencyStreak = 2
    /\ result.streakType = "consistency"
    /\ streaks.consistencyStreak = 2

---------------------------------------------------------------------------
(* Claims about the scheduler (ScheduleSpec) *)

ScheduledFor(task, dateString) ==
    /\ out.op = "isTaskScheduledForDate"
    /\ out.task = task
    /\ out.date = dateString

\* The indices of the tasks of the list that are scheduled for a date
ScheduledIndices(tasks, dateString) ==
    {i \in 1..Len(tasks) : isTaskScheduledForDate(tasks[i], dateString)}

\* C18: getScheduledTasksForDate returns exactly the tasks of its input for
\* which isTaskScheduledForDate is true, in the order of the input, and never
\* an archived task.
C18_ScheduledTasksAreTheFilteredInput ==
    out.op = "getScheduledTasksForDate" =>
        LET idx == ScheduledIndices(allTasks, out.date)
        IN  /\ Len(out.value) = Cardinality(idx)
            /\ \A k \in 1..Len(out.value) :
                  /\ \E i \in idx :
                        /\ Cardinality({j \in idx : j <= i}) = k
                        /\ out.value[k] = allTasks[i]
                  /\ ~out.value[k].archived

\* An archived task and a task off its weekday are dropped, the rest is kept
C18_Witness ==
    /\ out.op = "getScheduledTasksForDate"
    /\ Len(allTasks) = MaxTasks
    /\ allTasks[1].archived
    /\ Len(out.value) = MaxTasks - 1
    /\ out.value[1] = allTasks[2]

\* The local calendar day an instant falls on, found by search
LocalDayOf(instant) ==
    CHOOSE d \in ((instant \div HoursPerDay) - 1)..((instant \div HoursPerDay) + 1) :
        /\ d * HoursPerDay <= instant + tz
        /\ instant + tz < (d + 1) * HoursPerDay

\* C19: a non-archived every_n_days task with n >= 1 is due on D exactly
\* when the number of whole days between its local creation date and D is a
\* multiple of n; in particular it is due on its creation date.
C19_DueEveryNthDaySinceLocalCreation ==
    \A task \in Range(allTasks), d \in Dates :
        /\ ScheduledFor(task, d)
        /\ task.schedule.type = "every_n_days"
        /\ ~task.archived
        /\ task.schedule.everyNDays >= 1
        => LET created == LocalDayOf(task.createdAt)
           IN  /\ out.value = (Abs(d - created) % task.schedule.everyNDays = 0)
               /\ (d = created => out.value)

\* Due on the local creation day, which is not the UTC day of the instant
C19_Witness ==
    /\ out.op = "isTaskScheduledForDate"
    /\ out.task.schedule.type = "every_n_days"
    /\ out.task.schedule.everyNDays = 2
    /\ LocalDayOf(out.task.createdAt) = out.date
    /\ toISODateString(out.task.createdAt) # out.date
    /\ out.value

\* C20: an every_n_days schedule with n <= 0 is treated as n = 1, so the
\* task is due on every date.
C20_NonPositivePeriodIsDaily ==
    \A task \in Range(allTasks), d \in Dates :
        /\ ScheduledFor(task, d)
        /\ task.schedule.type = "every_n_days"
        /\ ~task.archived
        /\ task.schedule.everyNDays <= 0
        => out.value

---------------------------------------------------------------------------
(* Claims about the momentum score (ScoreSpec) *)

RECURSIVE SumOver(_, _)
\* The sum of f[i] over the indices i of a finite set
SumOver(indices, f) ==
    IF indices = {} THEN 0
    ELSE LET i == CHOOSE j \in indices : TRUE
         IN  f[i] + SumOver(indices \ {i}, f)

\* The sum of targetPerDay over the tasks scheduled for a date
TargetSum(dateString) ==
    SumOver(ScheduledIndices(allTasks, dateString),
            [i \in 1..Len(allTasks) |-> allTasks[i].targetPerDay])

\* The sum of min(countCompleted, targetPerDay) over the tasks scheduled for a date
ClampedSum(dateString) ==
    SumOver(ScheduledIndices(allTasks, dateString),
            [i \in 1..Len(allTasks) |->
                Min(completionMapGet(allCompletions, allTasks[i].id, dateString).countCompleted,
                    allTasks[i].targetPerDay)])

\* C11: on a date on which no task is scheduled (the list may be empty or
\* all archived) calculateMomentumScore returns 100.
C11_NothingScheduledScoresHundred ==
    /\ out.op = "calculateMomentumScore"
    /\ ScheduledIndices(allTasks, out.date) = {}
    => out.value = 100

\* A list of tasks, one of them live, none due on the date, with logs present
C11_Witness ==
    /\ out.op = "calculateMomentumScore"
    /\ Len(allTasks) = MaxTasks
    /\ \E i \in 1..Len(allTasks) : ~allTasks[i].archived
    /\ allCompletions # <<>>
    /\ ScheduledIndices(allTasks, out.date) = {}
    /\ out.value = 100

\* C12: on a date with at least one scheduled task calculateMomentumScore is
\* round(100 * sum of min(countCompleted, targetPerDay) / sum of targetPerDay)
\* over the scheduled tasks, an integer in 0..100.
C12_ScoreIsRoundedRatio ==
    /\ out.op = "calculateMomentumScore"
    /\ ScheduledIndices(allTasks, out.date) # {}
    => /\ out.value = Round(100 * ClampedSum(out.date), TargetSum(out.date))
       /\ out.value \in 0..100

---------------------------------------------------------------------------
(* Claims about the week statistics (WeekSpec) *)

\* The seven days of the week that starts on a date
DaysOfWeek(weekStartDate) == weekStartDate..(weekStartDate + DaysPerWeek - 1)

WeekTargetSum(weekStartDate) ==
    SumOver(DaysOfWeek(weekStartDate), [d \in DaysOfWeek(weekStartDate) |-> TargetSum(d)])

WeekClampedSum(weekStartDate) ==
    SumOver(DaysOfWeek(weekStartDate), [d \in DaysOfWeek(weekStartDate) |-> ClampedSum(d)])

\* C13: getWeekStats percentage is round(100 * the week's sum of clamped
\* completion counts / the week's sum of targets), and 100 when the summed
\* target is 0.
C13_WeekPercentageIsTargetWeighted ==
    out.op = "getWeekStats" =>
        LET target == WeekTargetSum(out.weekStartDate)
            done == WeekClampedSum(out.weekStartDate)
        IN  out.value.percentage = IF target = 0 THEN 100 ELSE Round(100 * done, target)

\* C14: a week with a task scheduled on some day and no completion at all
\* has percentage 0, also when some of its days have nothing scheduled.
C14_IdleWeekScoresZero ==
    /\ out.op = "getWeekStats"
    /\ allCompletions = <<>>
    /\ \E d \in DaysOfWeek(out.weekStartDate) : ScheduledIndices(allTasks, d) # {}
    => out.value.percentage = 0

\* An idle week of a weekday task: some days are due, some are free
C14_Witness ==
    /\ out.op = "getWeekStats"
    /\ allCompletions = <<>>
    /\ \E d \in DaysOfWeek(out.weekStartDate) : ScheduledIndices(allTasks, d) # {}
    /\ \E d \in DaysOfWeek(out.weekStartDate) : ScheduledIndices(allTasks, d) = {}
    /\ out.value.percentage = 0

\* The days of a week that score 100 with at least one task scheduled
FullDays(weekStartDate) ==
    {d \in DaysOfWeek(weekStartDate) :
        /\ ScheduledIndices(allTasks, d) # {}
        /\ calculateMomentumScore(allTasks, allCompletions, d) = 100}

\* C15: getWeekStats perfectDays is the number of days of the week that
\* score 100 and have at least one scheduled task; a day without scheduled
\* tasks scores 100 and is not counted.
C15_PerfectDaysNeedScheduledTasks ==
    out.op = "getWeekStats" =>
        out.value.perfectDays = Cardinality(FullDays(out.weekStartDate))

\* A week with a perfect day, a missed day and a free day that scores 100
C15_Witness ==
    /\ out.op = "getWeekStats"
    /\ out.value.perfectDays = 1
    /\ \E d \in DaysOfWeek(out.weekStartDate) :
          /\ ScheduledIndices(allTasks, d) = {}
          /\ calculateMomentumScore(allTasks, allCompletions, d) = 100
    /\ \E d \in DaysOfWeek(out.weekStartDate) :
          calculateMomentumScore(allTasks, allCompletions, d) < 100

\* C16: in the result of getLastNWeeksStats the first week has trend 0 and
\* each later week has its percentage minus that of the week before it.
C16_TrendIsChained ==
    out.op = "getLastNWeeksStats" =>
        /\ Len(out.value) = out.n
        /\ out.value[1].trendVsLastWeek = 0
        /\ \A i \in 2..Len(out.value) :
              out.value[i].trendVsLastWeek
                  = out.value[i].percentage - out.value[i - 1].percentage

\* Two weeks of different percentages: the later one carries the difference
C16_Witness ==
    /\ out.op = "getLastNWeeksStats"
    /\ Len(out.value) >= 2
    /\ out.value[1].percentage > 0
    /\ out.value[2].trendVsLastWeek < 0
    /\ out.value[2].weekStartDate = out.value[1].weekStartDate + DaysPerWeek

---------------------------------------------------------------------------
(* Claims about the streak count (RunSpec) *)

\* A scheduled task of the list met its target on a day
MetTarget(i, dateString) ==
    completionMapGet(allCompletions, allTasks[i].id, dateString).countCompleted
        >= allTasks[i].targetPerDay

\* The day is consistent: a focus task met its target, or, with no focus task
\* scheduled, any scheduled task did
ConsistentOn(dateString) ==
    LET scheduled == ScheduledIndices(allTasks, dateString)
        focus == {i \in scheduled : allTasks[i].focus}
    IN  IF focus # {} THEN \E i \in focus : MetTarget(i, dateString)
        ELSE \E i \in scheduled : MetTarget(i, dateString)

RECURSIVE RunEndingAt(_, _)
\* The length of the unbroken run of consistent days that ends at a local
\* day, days without scheduled tasks skipped, looking back over `days` days
RunEndingAt(dateString, days) ==
    IF days = 0 THEN 0
    ELSE IF ScheduledIndices(allTasks, dateString) = {}
    THEN RunEndingAt(dateString - 1, days - 1)
    ELSE IF ConsistentOn(dateString)
    THEN 1 + RunEndingAt(dateString - 1, days - 1)
    ELSE 0

\* C17: calculateConsistencyStreak(tasks, completions, fromDate) is the
\* length of the unbroken run of consistent days ending at the day of
\* fromDate; days with no scheduled task are skipped and the first scheduled
\* day that is not consistent ends the count.
C17_StreakIsRunEndingAtFromDate ==
    out.op = "calculateConsistencyStreak" =>
        out.value = RunEndingAt(LocalDayOf(out.fromDate), LookbackDays)

---------------------------------------------------------------------------
(* Further claims about the scheduler (ScheduleSpec) *)

\* The day of the week of a day number, 0 = Sunday .. 6 = Saturday, found by
\* search: day 0 is a Sunday
WeekdayOf(dateString) ==
    CHOOSE k \in 0..(DaysPerWeek - 1) :
        \E w \in 0..dateString : dateString = w * DaysPerWeek + k

\* C21: a non-archived task with a weekdays schedule is due on D exactly when
\* the day of the week of D is in its weekday list; with an empty list it is
\* never due.
C21_DueOnListedWeekdays ==
    \A task \in Range(allTasks), d \in Dates :
        /\ ScheduledFor(task, d)
        /\ task.schedule.type = "weekdays"
        /\ ~task.archived
        => /\ out.value = (WeekdayOf(d) \in task.schedule.weekdays)
           /\ (task.schedule.weekdays = {} => ~out.value)

\* A Monday/Wednesday/Friday task asked about the Wednesday of the first week
C21_Witness ==
    /\ out.op = "isTaskScheduledForDate"
    /\ out.task.schedule.type = "weekdays"
    /\ out.task.schedule.weekdays = {1, 3, 5}
    /\ out.date = 3
    /\ out.value

---------------------------------------------------------------------------
(* Claims about the next best action (ActionSpec) *)

\* The scheduled tasks of the list that have not met their target on a date
IncompleteIndices(dateString) ==
    {i \in ScheduledIndices(allTasks, dateString) : ~MetTarget(i, dateString)}

\* C22: getNextBestAction returns null exactly when every task scheduled on
\* the date has met its target (or none is scheduled); otherwise it returns
\* a scheduled task with countCompleted < targetPerDay.
C22_NullIffAllDone ==
    out.op = "getNextBestAction" =>
        LET open == IncompleteIndices(out.date)
        IN  /\ (out.value = NoTask) <=> (open = {})
            /\ out.value # NoTask => \E i \in open : out.value = allTasks[i]

\* Two scheduled tasks, the first one done: the second is returned
C22_Witness ==
    /\ out.op = "getNextBestAction"
    /\ Len(allTasks) = MaxTasks
    /\ ScheduledIndices(allTasks, out.date) = 1..MaxTasks
    /\ MetTarget(1, out.date)
    /\ out.value = allTasks[MaxTasks]

\* Nothing is left to do although tasks are scheduled
C22_WitnessAllDone ==
    /\ out.op = "getNextBestAction"
    /\ ScheduledIndices(allTasks, out.date) # {}
    /\ out.value = NoTask

\* Task i goes strictly before task j under the key: focus before non-focus,
\* then fewer remaining completions, then chore before non-chore
Before(i, j, dateString) ==
    LET left(k) == allTasks[k].targetPerDay
                   - completionMapGet(allCompletions, allTasks[k].id, dateString).countCompleted
        rank(k) == <<IF allTasks[k].focus THEN 0 ELSE 1, left(k),
                     IF allTasks[k].kind = "chore" THEN 0 ELSE 1>>
    IN  \/ rank(i)[1] < rank(j)[1]
        \/ rank(i)[1] = rank(j)[1] /\ rank(i)[2] < rank(j)[2]
        \/ rank(i)[1] = rank(j)[1] /\ rank(i)[2] = rank(j)[2] /\ rank(i)[3] < rank(j)[3]

\* C23: a returned task is the first in input order among the incomplete
\* scheduled tasks that are minimal under the key; an incomplete focus task
\* is preferred to any non-focus task whatever the remaining counts.
C23_FirstMinimalIsReturned ==
    /\ out.op = "getNextBestAction"
    /\ out.value # NoTask
    => LET open == IncompleteIndices(out.date)
           minimal == {i \in open : \A j \in open : ~Before(j, i, out.date)}
           first == CHOOSE i \in minimal : \A j \in minimal : i <= j
       IN  /\ out.value = allTasks[first]
           /\ (\E i \in open : allTasks[i].focus) => out.value.focus

\* A focus task with more left to do is returned ahead of an earlier non-focus task
C23_Witness ==
    /\ out.op = "getNextBestAction"
    /\ Len(allTasks) = MaxTasks
    /\ IncompleteIndices(out.date) = 1..MaxTasks
    /\ ~allTasks[1].focus
    /\ out.value = allTasks[MaxTasks]
    /\ out.value.focus
    /\ remainingCount(out.value, allCompletions, out.date)
           > remainingCount(allTasks[1], allCompletions, out.date)

---------------------------------------------------------------------------
(* Claims about the completion operations (StoreSpec) *)

\* The logs of a task for the day of the logs, in state.completions and in
\* the completions store
LogsInMemory(taskId) ==
    {i \in 1..Len(allCompletions) :
        allCompletions[i].taskId = taskId /\ allCompletions[i].date = LogDate}

LogsInDb(taskId) ==
    {r \in db.completions : r.taskId = taskId /\ r.date = LogDate}

\* C24: after any sequence of incrementCompletion, decrementCompletion and
\* setCompletion calls, overlapping or not, at most one CompletionLog exists
\* per (taskId, date) in state.completions and in the completions store.
C24_OneLogPerTaskAndDate ==
    \A i \in 1..Len(allTasks) :
        /\ Cardinality(LogsInMemory(allTasks[i].id)) <= 1
        /\ Cardinality(LogsInDb(allTasks[i].id)) <= 1

---------------------------------------------------------------------------
(* Claims about the streak engine without grace days (UnattendedSpec) *)

\* C25: when applyGraceDay is never invoked a missed day breaks the
\* consistency streak: after a passing evaluation on D the count is the
\* number of consecutive passing evaluated days ending at D.  The last pass
\* date is then the latest passing evaluated day, so the count is kept on
\* the same day, one more on the day after it, and 1 after any missed day.
C25_MissedDayBreaksStreak ==
    Updated /\ call.isConsistent =>
        streaks.consistencyStreak =
            IF prev.lastConsistencyDate = call.date THEN prev.consistencyStreak
            ELSE IF FirstOrNextDay(prev.lastConsistencyDate)
            THEN prev.consistencyStreak + 1
            ELSE 1

---------------------------------------------------------------------------
(* Claims about re-evaluating a day (Spec) *)

\* The completion lists of a date under which the day has the same
\* consistency and perfection as in the most recent call
LogsOfCall ==
    {logs \in {completionsFor(call.date, f, c) :
                  f \in 0..FocusTask.targetPerDay, c \in 0..ChoreTask.targetPerDay} :
        LET stats == getDayStats(allTasks, logs, call.date)
        IN  /\ isConsistentDay(stats) = call.isConsistent
            /\ isPerfectDay(stats) = call.isPerfect}

\* C26: a second updateStreakState call with the returned state and the
\* same tasks, completions and date returns a StreakState identical to the
\* first result.
C26_SameDayReevaluationChangesNothing ==
    Updated =>
        \A logs \in LogsOfCall :
            updateStreakState(streaks, allTasks, logs, call.date).streaks = streaks

\* The first call counted a pass and left a grace-day signal
C26_Witness ==
    /\ Updated
    /\ call.isConsistent
    /\ call.isPerfect
    /\ result.showGraceDayPrompt
    /\ streaks.consistencyStreak = MaxStreak
    /\ LogsOfCall # {}

---------------------------------------------------------------------------
(* Claims about the day statistics (DaySpec) *)

\* C27: whenever a day counts as perfect (percentage 100 with totalTasks > 0)
\* every task scheduled that day has met its target: completedTasks equals
\* totalTasks.
C27_PerfectDayHasEveryTaskDone ==
    /\ out.op = "getDayStats"
    /\ isPerfectDay(out.value)
    => /\ out.value.completedTasks = out.value.totalTasks
       /\ \A i \in ScheduledIndices(allTasks, out.date) : MetTarget(i, out.date)

---------------------------------------------------------------------------
(* Further claims about the completion operations (StoreSpec) *)

\* The target of the task a log belongs to
TargetOf(log) ==
    allTasks[CHOOSE i \in 1..Len(allTasks) : allTasks[i].id = log.taskId].targetPerDay

\* C28: with targetPerDay fixed every stored CompletionLog has
\* 1 <= countCompleted <= targetPerDay, in state.completions and in the
\* completions store: an increment at the target is ignored and a log whose
\* count returns to 0 is deleted.
C28_StoredCountsWithinTarget ==
    /\ \A i \in 1..Len(allCompletions) :
          /\ 1 <= allCompletions[i].countCompleted
          /\ allCompletions[i].countCompleted <= TargetOf(allCompletions[i])
    /\ \A r \in db.completions :
          /\ 1 <= r.countCompleted
          /\ r.countCompleted <= TargetOf(r)

\* A third increment of the twice-a-day task was ignored at the target
C28_WitnessAtTarget ==
    /\ history.increments[1] = MaxCalls
    /\ calls = <<>>
    /\ Len(allCompletions) = 1
    /\ allCompletions[1].countCompleted = allTasks[1].targetPerDay
    /\ db.completions = {allCompletions[1]}

\* A log was written and then deleted when its count came back to 0
C28_WitnessDeleted ==
    /\ history.increments[2] = 1
    /\ history.others[2] = 1
    /\ history.issued = 2
    /\ calls = <<>>
    /\ allCompletions = <<>>
    /\ db.completions = {}

\* C29: no completion tap is lost: after n incrementCompletion calls for one
\* (task, date), overlapping or not, and no other operation on it, the
\* resulting countCompleted is min(n, targetPerDay).
C29_NoTapIsLost ==
    \A i \in 1..Len(allTasks) :
        /\ calls = <<>>
        /\ history.others[i] = 0
        => LET logs == LogsInMemory(allTasks[i].id)
               n == history.increments[i]
           IN  IF n = 0 THEN logs = {}
               ELSE \E k \in logs :
                       allCompletions[k].countCompleted = Min(n, allTasks[i].targetPerDay)

---------------------------------------------------------------------------
(* Claims about seeding (SeedSpec) *)

\* The copies of a seed task in the tasks store
CopiesOf(name) == {t \in db.tasks : t.name = name}

\* C30: default tasks are seeded at most once: after any number of
\* initializeAppData invocations on a fresh database, overlapping or not,
\* the tasks store holds exactly one copy of each seed task.
C30_SeededOnce ==
    \A n \in 1..Len(SeedNames) :
        /\ Cardinality(CopiesOf(SeedNames[n])) <= 1
        /\ (\E k \in 1..Len(inits) : inits[k].stage = "done")
               => Cardinality(CopiesOf(SeedNames[n])) = 1

====
